---- MODULE Spec2Model ----
(***************************************************************************)
(* Control-flow model of the four Xero agent-toolkit example programs:     *)
(*   adk       python/google-adk/google-adk.py                             *)
(*   openai    python/openai/openai_agents.py                              *)
(*   langchain python/langchain/langchain.py                               *)
(*   cloudrun  python/google-adk/cloud-run-invoicing-agent/.../agent.py    *)
(* One behaviour is one invocation of one program.  The vendor SDKs, the   *)
(* tool-provider subprocess and the user at the terminal are the           *)
(* environment: every SDK call may return or raise, every input() may      *)
(* deliver any line of a small alphabet, and KeyboardInterrupt may be      *)
(* raised where the program waits for input or awaits an agent run.        *)
(***************************************************************************)
EXTENDS Integers, Sequences, FiniteSets, TLC

\* Number of lines an interactive loop reads before the model stops offering input.
MaxInputs == 3
\* methods of XeroADKAgent a caller awaits directly
MaxCalls == 3

(***************************************************************************)
(* Strings are sequences of one-character strings, so that str.strip and   *)
(* str.lower are computed and not assumed.                                 *)
(***************************************************************************)
Whitespace == {" ", "\t"}

RECURSIVE lstrip(_)
lstrip(s) == IF s # <<>> /\ Head(s) \in Whitespace THEN lstrip(Tail(s)) ELSE s

RECURSIVE rstrip(_)
rstrip(s) == IF s # <<>> /\ s[Len(s)] \in Whitespace THEN rstrip(SubSeq(s, 1, Len(s) - 1)) ELSE s

strip_identity(s) == s

strip(s) == rstrip(lstrip(s))

lower_char(c) ==
    CASE c = "Q" -> "q"
      [] c = "U" -> "u"
      [] c = "I" -> "i"
      [] c = "T" -> "t"
      [] c = "E" -> "e"
      [] c = "X" -> "x"
      [] c = "H" -> "h"
      [] OTHER -> c

lower_identity(s) == s

lower(s) == [i \in 1..Len(s) |-> lower_char(s[i])]

\* ['quit', 'exit', 'q']
QuitWords == { <<"q","u","i","t">>, <<"e","x","i","t">>, <<"q">> }

\* Lines the user may type at an interactive prompt.
RawInputs ==
    { <<"q","u","i","t">>, <<" ","E","x","i","t"," ">>, <<"Q">>,
      <<>>, <<" ","\t">>,
      <<"h","i">>, <<" ","q","u","i","t","s">> }

\* Lines the user may type at the numbered menu.
MenuInputs ==
    { <<"1">>, <<"2">>, <<"3">>, <<"4">>, <<"5">>, <<"6">>,
      <<" ","2"," ">>, <<"6","\t">>,
      <<"7">>, <<"0">>, <<>>, <<"1","2">>, <<"q">> }

\* Lines the user may type at the agent-type prompt of the OpenAI interactive demo.
AgentTypeInputs == { <<"1">>, <<" ","2">>, <<"3">>, <<"4">>, <<>> }

(***************************************************************************)
(* The process environment.                                                *)
(***************************************************************************)
Scripts == {"adk", "openai", "langchain", "cloudrun"}

EnvVars == {"XERO_CLIENT_ID", "XERO_CLIENT_SECRET", "OPENAI_API_KEY",
            "DEFAULT_MODEL", "GOOGLE_API_KEY", "GOOGLE_GENAI_USE_VERTEXAI"}

\* os.getenv of a variable that is not set
None == "<None>"

\* the value a variable has when it is set and non-empty
SetValue(v) ==
    CASE v = "XERO_CLIENT_ID" -> "my-client-id"
      [] v = "XERO_CLIENT_SECRET" -> "my-client-secret"
      [] v = "OPENAI_API_KEY" -> "sk-key"
      [] v = "DEFAULT_MODEL" -> "gemini-x"
      [] v = "GOOGLE_API_KEY" -> "g-key"
      [] v = "GOOGLE_GENAI_USE_VERTEXAI" -> "TRUE"

EnvValues(v) == {None, "", SetValue(v)}

\* the variables a program reads
ReadVars(s) ==
    CASE s = "adk" -> {"XERO_CLIENT_ID", "XERO_CLIENT_SECRET", "DEFAULT_MODEL",
                       "GOOGLE_API_KEY", "GOOGLE_GENAI_USE_VERTEXAI"}
      [] s = "openai" -> {"XERO_CLIENT_ID", "XERO_CLIENT_SECRET", "OPENAI_API_KEY"}
      [] s = "langchain" -> {"XERO_CLIENT_ID", "XERO_CLIENT_SECRET", "OPENAI_API_KEY"}
      [] s = "cloudrun" -> {"XERO_CLIENT_ID", "XERO_CLIENT_SECRET", "DEFAULT_MODEL"}

\* a truthiness under which only None is falsy
Falsy_only_none(x) == x = None
\* Python truthiness of an os.getenv result: None and "" are falsy
Falsy(x) == x = None \/ x = ""

\* the env mapping no tool-provider handle has been given yet
NoEnv == [v \in {} |-> None]

(***************************************************************************)
(* The menus: choice -> demo function, with the number of agent runs the   *)
(* demo has in its list and where its try block sits ("each": one try per  *)
(* run inside the loop, "all": one try around all runs).                   *)
(***************************************************************************)
Demo(n, p, t, i) == [name |-> n, prompts |-> p, try |-> t, interactive |-> i]

ADK_demos ==
    (<<"1">> :> Demo("demo_basic_operations", 3, "each", FALSE)) @@
    (<<"2">> :> Demo("demo_invoice_workflow", 3, "each", FALSE)) @@
    (<<"3">> :> Demo("demo_natural_language_processing", 4, "each", FALSE)) @@
    (<<"4">> :> Demo("demo_error_handling", 3, "each", FALSE)) @@
    (<<"5">> :> Demo("demo_batch_operations", 1, "each", FALSE)) @@
    (<<"6">> :> Demo("interactive_demo", 0, "each", TRUE))

\* the demos of openai_agents.py, were each step of demos 4 and 5 in a try of its own
OAI_demos_each_try ==
    (<<"1">> :> Demo("demo_basic_agent", 3, "each", FALSE)) @@
    (<<"2">> :> Demo("demo_invoice_specialist", 3, "each", FALSE)) @@
    (<<"3">> :> Demo("demo_contact_manager", 3, "each", FALSE)) @@
    (<<"4">> :> Demo("demo_multi_agent_workflow", 3, "each", FALSE)) @@
    (<<"5">> :> Demo("demo_comprehensive_workflow", 3, "each", FALSE)) @@
    (<<"6">> :> Demo("interactive_demo", 0, "each", TRUE))

OAI_demos_all_try ==
    (<<"1">> :> Demo("demo_basic_agent", 3, "all", FALSE)) @@
    (<<"2">> :> Demo("demo_invoice_specialist", 3, "all", FALSE)) @@
    (<<"3">> :> Demo("demo_contact_manager", 3, "all", FALSE)) @@
    (<<"4">> :> Demo("demo_multi_agent_workflow", 3, "all", FALSE)) @@
    (<<"5">> :> Demo("demo_comprehensive_workflow", 3, "all", FALSE)) @@
    (<<"6">> :> Demo("interactive_demo", 0, "each", TRUE))

OAI_demos ==
    (<<"1">> :> Demo("demo_basic_agent", 3, "each", FALSE)) @@
    (<<"2">> :> Demo("demo_invoice_specialist", 3, "each", FALSE)) @@
    (<<"3">> :> Demo("demo_contact_manager", 3, "each", FALSE)) @@
    (<<"4">> :> Demo("demo_multi_agent_workflow", 3, "all", FALSE)) @@
    (<<"5">> :> Demo("demo_comprehensive_workflow", 3, "all", FALSE)) @@
    (<<"6">> :> Demo("interactive_demo", 0, "each", TRUE))

LC_demos ==
    (<<"1">> :> Demo("demo_invoice_specialist_agent", 3, "all", FALSE)) @@
    (<<"2">> :> Demo("demo_contact_manager_agent", 3, "all", FALSE)) @@
    (<<"3">> :> Demo("demo_multi_step_workflow", 1, "all", FALSE)) @@
    (<<"4">> :> Demo("demo_invoice_analysis", 1, "all", FALSE)) @@
    (<<"5">> :> Demo("interactive_mcp_demo", 0, "each", TRUE)) @@
    (<<"6">> :> Demo("demo_organization_insights", 1, "all", FALSE))

NoDemo == Demo("none", 0, "each", FALSE)

\* a program that constructs XeroADKAgent() and calls its methods itself
APICaller == Demo("caller", 0, "each", TRUE)

(***************************************************************************)
(* The operations of the tool server and the allow-lists (tool_filter).    *)
(***************************************************************************)
\* tool_filter of create_xero_mcp_toolset (google-adk.py)
ADK_tool_filter ==
    { "list-contacts", "create-contact", "list-invoices", "create-invoice",
      "get-timesheet", "list-accounts", "list-items", "list-tax-rates",
      "list-tracking-categories", "update-contact", "update-invoice",
      "create-payment", "list-payments", "list-organisation-details" }

\* tool_filter of xero_mcp_toolset (cloud-run agent.py)
CR_tool_filter ==
    { "list-contacts", "list-items", "list-tax-rates", "list-accounts",
      "list-tracking-categories", "create-invoice", "list-invoices", "update-invoice" }

\* a handle constructed without a tool_filter argument
NoFilter == { "*" }

\* operations a server may offer that are on neither list
OtherOperations == { "delete-contact", "list-quotes", "create-credit-note" }

AllOperations == ADK_tool_filter \cup OtherOperations

\* what the external server may offer
ServerOffers ==
    { AllOperations,
      { "list-contacts", "create-invoice", "delete-contact" },
      { "list-invoices", "get-timesheet", "list-quotes" },
      { "create-credit-note" },
      {} }

\* every handle constructed without an allow-list
tool_filter_none(s) == NoFilter

\* the allow-list each program constructs its handle with
tool_filter(s) ==
    CASE s = "adk" -> ADK_tool_filter
      [] s = "cloudrun" -> CR_tool_filter
      [] s = "openai" -> NoFilter
      [] s = "langchain" -> NoFilter

\* the operations a handle with allow-list f passes on to the agent, of those offered
exposed_tools(f, offer) == IF f = NoFilter THEN offer ELSE offer \cap f

(***************************************************************************)
(* State.                                                                  *)
(***************************************************************************)
VARIABLES
    script,         \* which program runs
    env,            \* os.environ after load_dotenv: variable -> value or None
    npx,            \* shutil.which("npx") finds the runner
    pc,             \* position of the single coroutine
    ended,          \* "running", or how the process ended
    pending,        \* exception propagating through a context-manager exit
    choice,         \* the stripped menu choice, <<"-">> before it is read
    rawChoice,      \* the menu line as typed
    demo,           \* the demo function being run
    step,           \* index of the next prompt of the demo's list
    self,           \* fields of the XeroADKAgent instance
    handle,         \* tool-provider handle: "none", "open", "closed", "failed"
    spawnEnv,       \* env mapping given to the tool-provider handle
    handlesCreated, \* tool-provider handles constructed
    sessionsCreated,\* sessions created
    launches,       \* requests to start the tool-provider subprocess
    inflight,       \* agent runs issued and not yet returned or raised
    issued,         \* agent runs issued by the current demo
    raised,         \* agent runs of the current demo that raised an Exception
    errCount,       \* exception messages printed
    printed,        \* kinds of message printed so far
    menuReads,      \* lines read at the numbered menu
    demosRun,       \* demo functions called, in order
    checksPassed,   \* the startup checks of main were all passed
    numInputs,      \* lines read by the interactive loop
    lastRaw,        \* the last line read by the interactive loop, as typed
    handedLast,     \* times the last line was handed to the agent
    lastOutcome,    \* outcome of the last agent run
    loopExit,       \* why the interactive loop was left: "none", "quit", "interrupt"
    atInterrupt,    \* numInputs and issued when the loop was interrupted
    cleanups,       \* calls of XeroADKAgent.cleanup
    cleanupUsed,    \* the cleanup method that completed, "none" if none did
    offered,        \* the operations the external tool server offers
    exposed,        \* the operations the tool-provider handle exposes to the agent
    calls,          \* methods of XeroADKAgent called directly by a caller
    processResult,  \* what the last XeroADKAgent.process call gave its caller
    partFailed,     \* handling an event of the last run raised
    cleanupResult,  \* how the last XeroADKAgent.cleanup call ended
    cleanupLog      \* what the last cleanup call did with each method it came to

vars == << script, env, npx, pc, ended, pending, choice, rawChoice, demo, step, self,
           handle, spawnEnv, handlesCreated, sessionsCreated, launches, inflight,
           issued, raised, errCount, printed, menuReads, demosRun, checksPassed,
           numInputs, lastRaw, handedLast, lastOutcome, loopExit, atInterrupt,
           cleanups, cleanupUsed, offered, exposed, calls, processResult, partFailed,
           cleanupResult, cleanupLog >>

\* XeroADKAgent.__init__: every field None
XeroADKAgent_init ==
    [agent |-> FALSE, runner |-> FALSE, session_service |-> FALSE,
     session |-> FALSE, xero_toolset |-> FALSE]

Init ==
    /\ script \in Scripts
    /\ env \in {e \in [EnvVars -> UNION {EnvValues(v) : v \in EnvVars}] :
                  \A v \in EnvVars : /\ e[v] \in EnvValues(v)
                                     /\ v \notin ReadVars(script) => e[v] = None}
    /\ npx \in BOOLEAN
    /\ pc = "start"
    /\ ended = "running"
    /\ pending = "none"
    /\ choice = <<"-">>
    /\ rawChoice = <<"-">>
    /\ demo = NoDemo
    /\ step = 1
    /\ self = XeroADKAgent_init
    /\ handle = "none"
    /\ spawnEnv = NoEnv
    /\ handlesCreated = 0
    /\ sessionsCreated = 0
    /\ launches = 0
    /\ inflight = 0
    /\ issued = 0
    /\ raised = 0
    /\ errCount = 0
    /\ printed = {}
    /\ menuReads = 0
    /\ demosRun = <<>>
    /\ checksPassed = FALSE
    /\ numInputs = 0
    /\ lastRaw = <<"-">>
    /\ handedLast = 0
    /\ lastOutcome = "none"
    /\ loopExit = "none"
    /\ atInterrupt = <<0, 0>>
    /\ cleanups = 0
    /\ cleanupUsed = "none"
    /\ offered = AllOperations
    /\ exposed = {}
    /\ calls = 0
    /\ processResult = "none"
    /\ partFailed = FALSE
    /\ cleanupResult = "none"
    /\ cleanupLog = <<>>

(***************************************************************************)
(* Python helpers.                                                         *)
(***************************************************************************)
\* isinstance(exc, cls) for the three classes the programs name or raise
IsInstance(exc, cls) == cls = "BaseException" \/ exc = cls

\* the exception an agent run raises, by outcome of the run
RunOutcomes == {"text", "empty", "raise", "interrupt"}
ExcOf(outcome) == IF outcome = "interrupt" THEN "KeyboardInterrupt" ELSE "Exception"

\* print(...)
Say(tags) == printed' = printed \cup tags

\* the process ends: "normal", or the uncaught exception that ended it
Finish(how) == pc' = "done" /\ ended' = how

cfgVars == << script, env, npx >>
menuVars == << choice, rawChoice, demo, menuReads, demosRun >>
providerVars == << handle, spawnEnv, handlesCreated, sessionsCreated, launches, exposed >>
runVars == << inflight, issued, raised, lastOutcome >>
loopVars == << numInputs, lastRaw, handedLast, loopExit, atInterrupt >>
adkVars == << self, cleanups, cleanupUsed >>
apiVars == << calls, processResult, partFailed, cleanupResult, cleanupLog >>

\* `await` of an agent run issued without waiting for it (asyncio.create_task)
IssueRun_no_await ==
    /\ inflight' = inflight + 1
    /\ issued' = issued + 1
    /\ pc' = pc

\* `await` of an agent run: the coroutine is suspended until the run returns or raises
IssueRun ==
    /\ inflight' = inflight + 1
    /\ issued' = issued + 1
    /\ pc' = "run"

\* the position after one prompt of the demo has been dealt with
\* a demo loop that never leaves its prompt list
NextPc_no_exit == IF demo.interactive THEN "prompt" ELSE "loop"
\* the position after one prompt of the demo has been dealt with
NextPc == IF demo.interactive THEN "prompt"
          ELSE IF step + 1 > demo.prompts THEN "exit" ELSE "loop"
\* the loop stays on the prompt it has just dealt with
NextStep_retry == step
\* the prompt the loop deals with next
NextStep == IF demo.interactive THEN step ELSE step + 1

(***************************************************************************)
(* google-adk.py                                                           *)
(***************************************************************************)
\* env_vars of create_xero_mcp_toolset
create_xero_mcp_toolset == [v \in {"XERO_CLIENT_ID", "XERO_CLIENT_SECRET"} |-> env[v]]

\* the calls of XeroADKAgent.initialize that may raise, in order
InitCalls == {"create_xero_mcp_toolset", "LlmAgent", "Runner", "create_session", "none"}
InitCallNo(c) ==
    CASE c = "create_xero_mcp_toolset" -> 1
      [] c = "LlmAgent" -> 2
      [] c = "Runner" -> 3
      [] c = "create_session" -> 4
      [] c = "none" -> 5

\* XeroADKAgent.initialize, failing at call failAt: the fields assigned before it stay set
initialize(failAt) ==
    /\ self' = [xero_toolset |-> self.xero_toolset \/ InitCallNo(failAt) > 1,
                agent |-> self.agent \/ InitCallNo(failAt) > 2,
                session_service |-> self.session_service \/ InitCallNo(failAt) > 2,
                runner |-> self.runner \/ InitCallNo(failAt) > 3,
                session |-> self.session \/ InitCallNo(failAt) > 4]
    /\ IF InitCallNo(failAt) > 1
         THEN /\ handlesCreated' = handlesCreated + 1
              /\ handle' = "open"
              /\ spawnEnv' = create_xero_mcp_toolset
              /\ exposed' = exposed_tools(tool_filter("adk"), offered)
         ELSE UNCHANGED << handlesCreated, handle, spawnEnv, exposed >>
    /\ sessionsCreated' = IF failAt = "none" THEN sessionsCreated + 1 ELSE sessionsCreated

\* main, lines 406-447: the startup checks and the menu text
ADK_main_checks ==
    /\ script = "adk" /\ pc = "start"
    /\ LET missing_vars == {v \in {"XERO_CLIENT_ID", "XERO_CLIENT_SECRET"} : Falsy(env[v])}
       IN  IF missing_vars # {}
             THEN Say({"missing_env_vars"}) /\ Finish("normal") /\ UNCHANGED checksPassed
           ELSE IF /\ Falsy(env["DEFAULT_MODEL"])
                   /\ Falsy(env["GOOGLE_API_KEY"])
                   /\ Falsy(env["GOOGLE_GENAI_USE_VERTEXAI"])
             THEN Say({"no_model_config"}) /\ Finish("normal") /\ UNCHANGED checksPassed
           ELSE IF ~npx
             THEN Say({"npx_missing"}) /\ Finish("normal") /\ UNCHANGED checksPassed
           ELSE /\ Say({"menu"})
                /\ pc' = "menu"
                /\ checksPassed' = TRUE
                /\ UNCHANGED ended
    /\ UNCHANGED << cfgVars, offered, apiVars, menuVars, providerVars, runVars, loopVars, adkVars,
                    pending, step, errCount >>

\* main, lines 449-469: read the choice and dispatch
ADK_main_choice(raw) ==
    /\ script = "adk" /\ pc = "menu"
    /\ rawChoice' = raw
    /\ choice' = strip(raw)
    /\ menuReads' = menuReads + 1
    /\ IF choice' \in DOMAIN ADK_demos
         THEN /\ demo' = ADK_demos[choice']
              /\ demosRun' = Append(demosRun, demo'.name)
              /\ pc' = "aenter"
              /\ UNCHANGED << ended, printed >>
         ELSE /\ Say({"invalid_choice"})
              /\ Finish("normal")
              /\ UNCHANGED << demo, demosRun >>
    /\ UNCHANGED << cfgVars, offered, apiVars, providerVars, runVars, loopVars, adkVars,
                    pending, step, errCount, checksPassed >>

\* `async with XeroADKAgent() as agent`: __init__, then __aenter__ -> initialize.
\* A failing initialize prints and re-raises; __aenter__ raising means the body and
\* __aexit__ never run, and main's `except Exception` reports the demo as failed.
ADK_aenter(failAt) ==
    /\ script = "adk" /\ pc = "aenter"
    /\ initialize(failAt)
    /\ IF failAt = "none"
         THEN /\ Say({"init_ok"})
              /\ pc' = IF demo.interactive THEN "prompt" ELSE "loop"
              /\ UNCHANGED << ended, errCount >>
         ELSE /\ Say({"init_failed", "demo_failed"})
              /\ errCount' = errCount + 2
              /\ Finish("normal")
    /\ UNCHANGED << cfgVars, offered, apiVars, menuVars, runVars, loopVars, cleanups, cleanupUsed,
                    launches, pending, step, checksPassed >>

\* the class named by `except ... as e` at the end of XeroADKAgent.process
ADK_process_except_bare == "BaseException"
ADK_process_except == "Exception"

\* "Error processing response part" printed when handling an event raised
part_warning(partError) == IF partError THEN {"part_warning"} ELSE {}

\* XeroADKAgent.process without its try/except: what the run raised goes to the caller
process_result_no_handler(outcome) ==
    IF outcome = "text" THEN "text"
    ELSE IF outcome = "empty" THEN "default"
    ELSE ExcOf(outcome)
\* what XeroADKAgent.process gives its caller: the joined text parts, the default
\* sentence when there is none, the error message when the handler catches what was
\* raised, and else the exception itself
process_result(outcome) ==
    IF outcome = "text" THEN "text"
    ELSE IF outcome = "empty" THEN "default"
    ELSE IF IsInstance(ExcOf(outcome), ADK_process_except) THEN "error_msg"
    ELSE ExcOf(outcome)

\* XeroADKAgent.process up to runner.run_async: lazy initialization when agent or
\* runner is missing, then the run is issued.  A failing lazy initialization is
\* caught by process, which prints and returns the error message; so is the
\* AttributeError of `self.session.id` when the session is None.
ADK_process_start(failAt) ==
    IF ~self.agent \/ ~self.runner
      THEN /\ initialize(failAt)
           /\ IF failAt = "none"
                THEN /\ Say({"init_ok", "processing"})
                     /\ IssueRun
                     /\ launches' = launches + 1
                     /\ UNCHANGED << errCount, raised, step, processResult >>
                ELSE /\ Say({"init_failed", "process_error", "result"})
                     /\ errCount' = errCount + 2
                     /\ raised' = raised + 1
                     /\ processResult' = process_result("raise")
                     /\ pc' = NextPc
                     /\ step' = NextStep
                     /\ UNCHANGED << inflight, issued, launches >>
    ELSE IF ~self.session
      THEN /\ failAt = "none"
           /\ Say({"processing", "process_error", "result"})
           /\ errCount' = errCount + 1
           /\ raised' = raised + 1
           /\ processResult' = process_result("raise")
           /\ pc' = NextPc
           /\ step' = NextStep
           /\ UNCHANGED << self, handlesCreated, handle, spawnEnv, sessionsCreated,
                           exposed, inflight, issued, launches >>
      ELSE /\ failAt = "none"
           /\ Say({"processing"})
           /\ IssueRun
           /\ launches' = IF launches = 0 THEN 1 ELSE launches
           /\ UNCHANGED << self, handlesCreated, handle, spawnEnv, sessionsCreated,
                           exposed, errCount, raised, step, processResult >>

\* one iteration of the `for query in queries` loop of demos 1-5, up to the await
ADK_demo_process(failAt) ==
    /\ script = "adk" /\ pc = "loop"
    /\ ADK_process_start(failAt)
    /\ UNCHANGED << cfgVars, offered, calls, partFailed, cleanupResult, cleanupLog,
                    menuVars, loopVars, cleanups, cleanupUsed,
                    ended, pending, checksPassed, lastOutcome >>

\* interactive_demo, lines 375-386: one line read at the prompt
ADK_interactive_input(raw, failAt) ==
    /\ script = "adk" /\ pc = "prompt"
    /\ numInputs < MaxInputs
    /\ numInputs' = numInputs + 1
    /\ lastRaw' = raw
    /\ LET user_input == strip(raw)
       IN  IF lower(user_input) \in QuitWords
             THEN /\ failAt = "none"
                  /\ Say({"goodbye"})
                  /\ loopExit' = "quit"
                  /\ pc' = "exit"
                  /\ handedLast' = 0
                  /\ UNCHANGED << providerVars, self, inflight, issued, raised,
                                  errCount, step, processResult >>
           ELSE IF user_input = <<>>
             THEN /\ failAt = "none"
                  /\ handedLast' = 0
                  /\ UNCHANGED << providerVars, self, inflight, issued, raised,
                                  errCount, step, printed, pc, loopExit, processResult >>
           ELSE /\ ADK_process_start(failAt)
                /\ handedLast' = 1
                /\ UNCHANGED loopExit
    /\ UNCHANGED << cfgVars, offered, calls, partFailed, cleanupResult, cleanupLog,
                    menuVars, cleanups, cleanupUsed, atInterrupt,
                    ended, pending, checksPassed, lastOutcome >>

\* interactive_demo, lines 389-391: KeyboardInterrupt raised by input()
ADK_interactive_interrupt ==
    /\ script = "adk" /\ pc = "prompt"
    /\ Say({"goodbye"})
    /\ loopExit' = "interrupt"
    /\ atInterrupt' = << numInputs, issued >>
    /\ pc' = "exit"
    /\ UNCHANGED << cfgVars, offered, apiVars, menuVars, providerVars, runVars, adkVars,
                    numInputs, lastRaw, handedLast, ended, pending, step,
                    errCount, checksPassed >>

\* the awaited run returns or raises: the rest of XeroADKAgent.process and of the
\* loop body that called it.  An event whose handling raised is reported and skipped
\* inside the event loop and adds no text: the run then counts as "text" or "empty"
\* by the text parts of its other events.
ADK_run_done(outcome) ==
    /\ script = "adk" /\ pc = "run" /\ demo # APICaller
    /\ inflight' = inflight - 1
    /\ lastOutcome' = outcome
    /\ processResult' = process_result(outcome)
    /\ IF outcome \in {"text", "empty"}
         THEN /\ Say({"result"})
              /\ pc' = NextPc
              /\ step' = NextStep
              /\ UNCHANGED << raised, errCount, loopExit, atInterrupt, pending >>
       ELSE IF IsInstance(ExcOf(outcome), ADK_process_except)
         THEN \* process: except -> print the error message and return it
              /\ Say({"process_error", "result"})
              /\ errCount' = errCount + 1
              /\ raised' = IF outcome = "raise" THEN raised + 1 ELSE raised
              /\ pc' = NextPc
              /\ step' = NextStep
              /\ UNCHANGED << loopExit, atInterrupt, pending >>
       ELSE IF demo.interactive
         THEN \* interactive_demo: except KeyboardInterrupt -> break
              /\ Say({"goodbye"})
              /\ loopExit' = "interrupt"
              /\ atInterrupt' = << numInputs, issued >>
              /\ pc' = "exit"
              /\ UNCHANGED << raised, errCount, step, pending >>
         ELSE \* demos 1-5 catch Exception only: it leaves the `async with` body
              /\ pending' = "KeyboardInterrupt"
              /\ pc' = "exit"
              /\ UNCHANGED << raised, errCount, step, loopExit, atInterrupt, printed >>
    /\ UNCHANGED << cfgVars, offered, calls, partFailed, cleanupResult, cleanupLog, menuVars,
                    providerVars, adkVars, issued,
                    numInputs, lastRaw, handedLast, ended, checksPassed >>

\* the methods XeroADKAgent.cleanup tries, in order, and the attribute each needs
cleanup_methods == << "close", "disconnect", "cleanup", "_client.close", "_connection.close" >>
cleanup_attr(m) ==
    CASE m = "_client.close" -> "_client"
      [] m = "_connection.close" -> "_connection"
      [] OTHER -> m
ToolsetAttrs == {"close", "disconnect", "cleanup", "_client", "_connection"}

\* the first method, from position i on, that the toolset has and that completes
RECURSIVE first_completed(_, _, _)
first_completed(i, has, fails) ==
    IF i > Len(cleanup_methods) THEN "none"
    ELSE IF cleanup_attr(cleanup_methods[i]) \in has /\ cleanup_methods[i] \notin fails
      THEN cleanup_methods[i]
    ELSE first_completed(i + 1, has, fails)

\* the methods of a toolset with attributes has
cleanup_methods_set(has) == {cleanup_methods[i] : i \in {j \in 1..Len(cleanup_methods) : cleanup_attr(cleanup_methods[j]) \in has}}

\* the class named by the `except` inside the for-loop of cleanup, were it to let
\* the exceptions of the cleanup methods through
cleanup_inner_except_interrupt == "KeyboardInterrupt"
\* the class named by the `except` inside the for-loop of cleanup
cleanup_inner_except == "Exception"
\* the class named by the `except` around the body of cleanup
cleanup_outer_except == "Exception"

\* the for-loop of cleanup from method i on: what it does with each method it comes
\* to.  A method the toolset lacks is skipped; one that raises is followed by the
\* next if the inner handler catches it; one that completes ends the loop (break).
RECURSIVE cleanup_loop(_, _, _)
cleanup_loop(i, has, fails) ==
    IF i > Len(cleanup_methods) THEN <<>>
    ELSE LET m == cleanup_methods[i]
         IN  IF cleanup_attr(m) \notin has
               THEN << <<m, "skipped">> >> \o cleanup_loop(i + 1, has, fails)
             ELSE IF m \in fails
               THEN IF IsInstance("Exception", cleanup_inner_except)
                      THEN << <<m, "raised">> >> \o cleanup_loop(i + 1, has, fails)
                      ELSE << <<m, "escaped">> >>
             ELSE << <<m, "completed">> >>

\* the last entry of a cleanup log is of kind how
log_ends(log, how) == log # <<>> /\ log[Len(log)][2] = how

\* XeroADKAgent.cleanup without any try/except
cleanup_no_handlers(toolset, has, fails) ==
    LET log == IF toolset THEN cleanup_loop(1, has, fails) ELSE <<>>
        failed == \E i \in 1..Len(log) : log[i][2] \in {"raised", "escaped"}
    IN  [log |-> log,
         used |-> IF log_ends(log, "completed") /\ ~failed THEN log[Len(log)][1] ELSE "none",
         outcome |-> IF failed THEN "raised" ELSE "completed"]
\* XeroADKAgent.cleanup: the loop is run only when a toolset was stored; an exception
\* that gets out of the loop is caught by the outer handler and reported as a warning
cleanup(toolset, has, fails) ==
    LET log == IF toolset THEN cleanup_loop(1, has, fails) ELSE <<>>
    IN  [log |-> log,
         used |-> IF log_ends(log, "completed") THEN log[Len(log)][1] ELSE "none",
         outcome |-> IF ~log_ends(log, "escaped") THEN "completed"
                     ELSE IF IsInstance("Exception", cleanup_outer_except) THEN "warning"
                     ELSE "raised"]

\* __aexit__ returning a true value
aexit_suppresses_true == TRUE
\* __aexit__ returns None: the exception of the body is raised again after it
aexit_suppresses == FALSE

\* __aexit__ -> cleanup, then the exception of the body (if any) goes on to main:
\* `except KeyboardInterrupt` prints and main returns
ADK_aexit(has, fails) ==
    /\ script = "adk" /\ pc = "exit"
    /\ cleanups' = cleanups + 1
    /\ LET used == IF self.xero_toolset THEN first_completed(1, has, fails) ELSE "none"
       IN  /\ cleanupUsed' = used
           /\ handle' = IF used # "none" THEN "closed" ELSE handle
           /\ Say((IF used # "none" THEN {"cleanup_used"} ELSE {})
                  \cup {"cleanup_completed"}
                  \cup (IF pending = "KeyboardInterrupt" /\ ~aexit_suppresses
                          THEN {"demo_interrupted"} ELSE {}))
    /\ cleanupResult' = cleanup(self.xero_toolset, has, fails).outcome
    /\ pending' = "none"
    /\ Finish("normal")
    /\ UNCHANGED << cfgVars, offered, calls, processResult, partFailed, cleanupLog, menuVars, runVars, loopVars, self, spawnEnv,
                    handlesCreated, sessionsCreated, launches, exposed, step, errCount,
                    checksPassed >>

ADK_Next ==
    \/ ADK_main_checks
    \/ \E raw \in MenuInputs : ADK_main_choice(raw)
    \/ \E failAt \in InitCalls : ADK_aenter(failAt)
    \/ \E failAt \in InitCalls : ADK_demo_process(failAt)
    \/ \E raw \in RawInputs, failAt \in InitCalls : ADK_interactive_input(raw, failAt)
    \/ ADK_interactive_interrupt
    \/ \E outcome \in RunOutcomes : ADK_run_done(outcome)
    \/ \E has \in SUBSET ToolsetAttrs : \E fails \in SUBSET cleanup_methods_set(has) :
           ADK_aexit(has, fails)

(***************************************************************************)
(* openai_agents.py                                                        *)
(***************************************************************************)
\* "env" of the MCPServerStdio params: os.environ[...] of both credentials
MCPServerStdio_env == [v \in {"XERO_CLIENT_ID", "XERO_CLIENT_SECRET"} |-> env[v]]

\* main, lines 353-366: the startup checks; a missing npx raises RuntimeError
OAI_main_checks ==
    /\ script = "openai" /\ pc = "start"
    /\ IF Falsy(env["OPENAI_API_KEY"])
         THEN Say({"llm_key_missing"}) /\ Finish("normal") /\ UNCHANGED checksPassed
       ELSE IF Falsy(env["XERO_CLIENT_ID"]) \/ Falsy(env["XERO_CLIENT_SECRET"])
         THEN Say({"xero_credentials_missing"}) /\ Finish("normal") /\ UNCHANGED checksPassed
       ELSE IF ~npx
         THEN Say({"npx_missing_raised"}) /\ Finish("RuntimeError") /\ UNCHANGED checksPassed
       ELSE /\ pc' = "connect"
            /\ checksPassed' = TRUE
            /\ UNCHANGED << ended, printed >>
    /\ UNCHANGED << cfgVars, offered, apiVars, menuVars, providerVars, runVars, loopVars, adkVars,
                    pending, step, errCount >>

\* main, lines 369-383: `async with MCPServerStdio(...) as server` is entered; then
\* the trace line and the menu text of run_demo_with_mcp are printed.  The statement
\* is in no try block: a failing connection ends the process with the exception.
OAI_connect(ok) ==
    /\ script = "openai" /\ pc = "connect"
    /\ handlesCreated' = handlesCreated + 1
    /\ spawnEnv' = MCPServerStdio_env
    /\ launches' = launches + 1
    /\ IF ok
         THEN /\ handle' = "open"
              /\ exposed' = exposed_tools(tool_filter("openai"), offered)
              /\ Say({"trace", "menu"})
              /\ pc' = "menu"
              /\ UNCHANGED ended
         ELSE /\ handle' = "failed"
              /\ Finish("SdkException")
              /\ UNCHANGED << printed, exposed >>
    /\ UNCHANGED << cfgVars, offered, apiVars, menuVars, runVars, loopVars, adkVars, sessionsCreated,
                    pending, step, errCount, checksPassed >>

\* run_demo_with_mcp, lines 333-348
OAI_run_demo_with_mcp(raw) ==
    /\ script = "openai" /\ pc = "menu"
    /\ rawChoice' = raw
    /\ choice' = strip(raw)
    /\ menuReads' = menuReads + 1
    /\ IF choice' \in DOMAIN OAI_demos
         THEN /\ demo' = OAI_demos[choice']
              /\ demosRun' = Append(demosRun, demo'.name)
              /\ pc' = IF demo'.interactive THEN "agent_type" ELSE "create"
              /\ UNCHANGED printed
         ELSE /\ Say({"invalid_choice"})
              /\ pc' = "exit"
              /\ UNCHANGED << demo, demosRun >>
    /\ UNCHANGED << cfgVars, offered, apiVars, providerVars, runVars, loopVars, adkVars, ended,
                    pending, step, errCount, checksPassed >>

\* demos 1-5, the create_*_agent calls before the first try block: Agent(...) raising
\* leaves the demo and the `async with` of main
OAI_create_agent(ok) ==
    /\ script = "openai" /\ pc = "create"
    /\ IF ok
         THEN pc' = "loop" /\ UNCHANGED pending
         ELSE pc' = "exit" /\ pending' = "SdkException"
    /\ UNCHANGED << cfgVars, offered, apiVars, menuVars, providerVars, runVars, loopVars, adkVars,
                    ended, step, errCount, printed, checksPassed >>

\* interactive_demo, lines 270-296: the agent type is read and the agent created
OAI_interactive_agent_type(raw, ok) ==
    /\ script = "openai" /\ pc = "agent_type"
    /\ IF strip(raw) \in { <<"1">>, <<"2">>, <<"3">> }
         THEN IF ok
                THEN Say({"agent_ready"}) /\ pc' = "prompt" /\ UNCHANGED pending
                ELSE pc' = "exit" /\ pending' = "SdkException" /\ UNCHANGED printed
         ELSE /\ ok
              /\ Say({"invalid_agent_type"})
              /\ pc' = "exit"
              /\ UNCHANGED pending
    /\ UNCHANGED << cfgVars, offered, apiVars, menuVars, providerVars, runVars, loopVars, adkVars,
                    ended, step, errCount, checksPassed >>

\* one `await Runner.run(...)` of demos 1-5, up to the await
OAI_demo_run ==
    /\ script = "openai" /\ pc = "loop"
    /\ Say({"thinking"})
    /\ IssueRun
    /\ UNCHANGED << cfgVars, offered, apiVars, menuVars, providerVars, loopVars, adkVars, raised,
                    lastOutcome, ended, pending, step, errCount, checksPassed >>

\* interactive_demo, lines 298-310: one line read at the prompt
OAI_interactive_input(raw) ==
    /\ script = "openai" /\ pc = "prompt"
    /\ numInputs < MaxInputs
    /\ numInputs' = numInputs + 1
    /\ lastRaw' = raw
    /\ LET user_input == strip(raw)
       IN  IF lower(user_input) \in QuitWords
             THEN /\ Say({"goodbye"})
                  /\ loopExit' = "quit"
                  /\ pc' = "exit"
                  /\ handedLast' = 0
                  /\ UNCHANGED << inflight, issued >>
           ELSE IF user_input = <<>>
             THEN /\ handedLast' = 0
                  /\ UNCHANGED << inflight, issued, printed, pc, loopExit >>
           ELSE /\ Say({"thinking"})
                /\ IssueRun
                /\ handedLast' = 1
                /\ UNCHANGED loopExit
    /\ UNCHANGED << cfgVars, offered, apiVars, menuVars, providerVars, adkVars, raised, lastOutcome,
                    atInterrupt, ended, pending, step, errCount, checksPassed >>

\* interactive_demo, lines 313-315: KeyboardInterrupt raised by input()
OAI_interactive_interrupt ==
    /\ script = "openai" /\ pc = "prompt"
    /\ Say({"goodbye"})
    /\ loopExit' = "interrupt"
    /\ atInterrupt' = << numInputs, issued >>
    /\ pc' = "exit"
    /\ UNCHANGED << cfgVars, offered, apiVars, menuVars, providerVars, runVars, adkVars,
                    numInputs, lastRaw, handedLast, ended, pending, step,
                    errCount, checksPassed >>

\* the awaited Runner.run returns or raises: the rest of the try block around it
OAI_run_done(outcome) ==
    /\ script = "openai" /\ pc = "run"
    /\ inflight' = inflight - 1
    /\ lastOutcome' = outcome
    /\ IF outcome \in {"text", "empty"}
         THEN /\ Say({"result"})
              /\ pc' = NextPc
              /\ step' = NextStep
              /\ UNCHANGED << raised, errCount, loopExit, atInterrupt, pending >>
       ELSE IF outcome = "raise"
         THEN \* except Exception as e: print
              /\ Say({"error"})
              /\ errCount' = errCount + 1
              /\ raised' = raised + 1
              /\ IF demo.try = "each"
                   THEN pc' = NextPc /\ step' = NextStep
                   ELSE pc' = "exit" /\ UNCHANGED step
              /\ UNCHANGED << loopExit, atInterrupt, pending >>
       ELSE IF demo.interactive
         THEN \* except KeyboardInterrupt -> break
              /\ Say({"goodbye"})
              /\ loopExit' = "interrupt"
              /\ atInterrupt' = << numInputs, issued >>
              /\ pc' = "exit"
              /\ UNCHANGED << raised, errCount, step, pending >>
         ELSE /\ pending' = "KeyboardInterrupt"
              /\ pc' = "exit"
              /\ UNCHANGED << raised, errCount, step, loopExit, atInterrupt, printed >>
    /\ UNCHANGED << cfgVars, offered, apiVars, menuVars, providerVars, adkVars, issued,
                    numInputs, lastRaw, handedLast, ended, checksPassed >>

\* the `async with MCPServerStdio(...)` of main is left: the server is closed and an
\* exception of the body goes on out of main
OAI_server_exit ==
    /\ script = "openai" /\ pc = "exit"
    /\ handle' = "closed"
    /\ Finish(IF pending = "none" THEN "normal" ELSE pending)
    /\ pending' = "none"
    /\ UNCHANGED << cfgVars, offered, apiVars, menuVars, runVars, loopVars, adkVars, spawnEnv,
                    handlesCreated, sessionsCreated, launches, exposed, step, errCount,
                    printed, checksPassed >>

OAI_Next ==
    \/ OAI_main_checks
    \/ \E ok \in BOOLEAN : OAI_connect(ok)
    \/ \E raw \in MenuInputs : OAI_run_demo_with_mcp(raw)
    \/ \E ok \in BOOLEAN : OAI_create_agent(ok)
    \/ \E raw \in AgentTypeInputs, ok \in BOOLEAN : OAI_interactive_agent_type(raw, ok)
    \/ OAI_demo_run
    \/ \E raw \in RawInputs : OAI_interactive_input(raw)
    \/ OAI_interactive_interrupt
    \/ \E outcome \in RunOutcomes : OAI_run_done(outcome)
    \/ OAI_server_exit

(***************************************************************************)
(* langchain.py                                                            *)
(***************************************************************************)
\* "env" of the MultiServerMCPClient configuration
MultiServerMCPClient_env == [v \in {"XERO_CLIENT_ID", "XERO_CLIENT_SECRET"} |-> env[v]]

\* the calls of create_xero_mcp_agent that may raise, in order
CreateCalls == {"MultiServerMCPClient", "get_tools", "ChatOpenAI", "create_react_agent", "none"}
CreateCallNo(c) ==
    CASE c = "MultiServerMCPClient" -> 1
      [] c = "get_tools" -> 2
      [] c = "ChatOpenAI" -> 3
      [] c = "create_react_agent" -> 4
      [] c = "none" -> 5

\* main, lines 262-280: the startup checks and the menu text
LC_main_checks ==
    /\ script = "langchain" /\ pc = "start"
    /\ IF Falsy(env["OPENAI_API_KEY"])
         THEN Say({"llm_key_missing"}) /\ Finish("normal") /\ UNCHANGED checksPassed
       ELSE IF Falsy(env["XERO_CLIENT_ID"]) \/ Falsy(env["XERO_CLIENT_SECRET"])
         THEN Say({"xero_credentials_missing"}) /\ Finish("normal") /\ UNCHANGED checksPassed
       ELSE /\ Say({"menu"})
            /\ pc' = "menu"
            /\ checksPassed' = TRUE
            /\ UNCHANGED ended
    /\ UNCHANGED << cfgVars, offered, apiVars, menuVars, providerVars, runVars, loopVars, adkVars,
                    pending, step, errCount >>

\* main, lines 282-296
LC_main_choice(raw) ==
    /\ script = "langchain" /\ pc = "menu"
    /\ rawChoice' = raw
    /\ choice' = strip(raw)
    /\ menuReads' = menuReads + 1
    /\ IF choice' \in DOMAIN LC_demos
         THEN /\ demo' = LC_demos[choice']
              /\ demosRun' = Append(demosRun, demo'.name)
              /\ pc' = "create"
              /\ UNCHANGED << ended, printed >>
         ELSE /\ Say({"invalid_choice"})
              /\ Finish("normal")
              /\ UNCHANGED << demo, demosRun >>
    /\ UNCHANGED << cfgVars, offered, apiVars, providerVars, runVars, loopVars, adkVars,
                    pending, step, errCount, checksPassed >>

\* create_xero_mcp_agent, called first thing by every demo and outside its try block:
\* an exception leaves the demo, asyncio.run and main.  client.get_tools() starts the
\* tool-provider subprocess, which cannot succeed without npx.
LC_create_xero_mcp_agent(failAt) ==
    /\ script = "langchain" /\ pc = "create"
    /\ ~npx => CreateCallNo(failAt) <= 2
    /\ IF CreateCallNo(failAt) > 1
         THEN /\ handlesCreated' = handlesCreated + 1
              /\ handle' = "open"
              /\ spawnEnv' = MultiServerMCPClient_env
              /\ launches' = launches + 1
         ELSE UNCHANGED << handlesCreated, handle, spawnEnv, launches >>
    /\ exposed' = IF CreateCallNo(failAt) > 2 THEN exposed_tools(tool_filter("langchain"), offered)
                                              ELSE exposed
    /\ IF failAt = "none"
         THEN /\ pc' = IF demo.interactive THEN "prompt" ELSE "loop"
              /\ UNCHANGED ended
         ELSE Finish("SdkException")
    /\ UNCHANGED << cfgVars, offered, apiVars, menuVars, runVars, loopVars, adkVars, sessionsCreated,
                    pending, step, errCount, printed, checksPassed >>

\* one `await agent.ainvoke(...)` of demos 1-4 and 6, up to the await
LC_demo_invoke ==
    /\ script = "langchain" /\ pc = "loop"
    /\ IssueRun
    /\ UNCHANGED << cfgVars, offered, apiVars, menuVars, providerVars, loopVars, adkVars, raised,
                    lastOutcome, ended, pending, step, errCount, printed, checksPassed >>

\* interactive_mcp_demo, lines 200-213: one line read at the prompt
LC_interactive_input(raw) ==
    /\ script = "langchain" /\ pc = "prompt"
    /\ numInputs < MaxInputs
    /\ numInputs' = numInputs + 1
    /\ lastRaw' = raw
    /\ LET user_input == strip(raw)
       IN  IF lower(user_input) \in QuitWords
             THEN /\ Say({"goodbye"})
                  /\ loopExit' = "quit"
                  /\ Finish("normal")
                  /\ handedLast' = 0
                  /\ UNCHANGED << inflight, issued >>
           ELSE IF user_input = <<>>
             THEN /\ handedLast' = 0
                  /\ UNCHANGED << inflight, issued, printed, pc, loopExit, ended >>
           ELSE /\ IssueRun
                /\ handedLast' = 1
                /\ UNCHANGED << loopExit, printed, ended >>
    /\ UNCHANGED << cfgVars, offered, apiVars, menuVars, providerVars, adkVars, raised, lastOutcome,
                    atInterrupt, pending, step, errCount, checksPassed >>

\* interactive_mcp_demo, lines 219-221: KeyboardInterrupt raised by input()
LC_interactive_interrupt ==
    /\ script = "langchain" /\ pc = "prompt"
    /\ Say({"goodbye"})
    /\ loopExit' = "interrupt"
    /\ atInterrupt' = << numInputs, issued >>
    /\ Finish("normal")
    /\ UNCHANGED << cfgVars, offered, apiVars, menuVars, providerVars, runVars, adkVars,
                    numInputs, lastRaw, handedLast, pending, step,
                    errCount, checksPassed >>

\* the awaited agent.ainvoke returns or raises: the rest of the try block around it;
\* when the demo function returns, asyncio.run and main return
LC_run_done(outcome) ==
    /\ script = "langchain" /\ pc = "run"
    /\ inflight' = inflight - 1
    /\ lastOutcome' = outcome
    /\ IF outcome \in {"text", "empty"}
         THEN /\ printed' = IF outcome = "text" THEN printed \cup {"result"} ELSE printed
              /\ IF NextPc = "exit" THEN Finish("normal")
                                    ELSE pc' = NextPc /\ UNCHANGED ended
              /\ step' = NextStep
              /\ UNCHANGED << raised, errCount, loopExit, atInterrupt >>
       ELSE IF outcome = "raise"
         THEN \* except Exception as e: print
              /\ Say({"error"})
              /\ errCount' = errCount + 1
              /\ raised' = raised + 1
              /\ IF demo.interactive
                   THEN pc' = "prompt" /\ UNCHANGED ended
                   ELSE Finish("normal")
              /\ UNCHANGED << step, loopExit, atInterrupt >>
       ELSE IF demo.interactive
         THEN \* except KeyboardInterrupt -> break
              /\ Say({"goodbye"})
              /\ loopExit' = "interrupt"
              /\ atInterrupt' = << numInputs, issued >>
              /\ Finish("normal")
              /\ UNCHANGED << raised, errCount, step >>
         ELSE /\ Finish("KeyboardInterrupt")
              /\ UNCHANGED << raised, errCount, step, loopExit, atInterrupt, printed >>
    /\ UNCHANGED << cfgVars, offered, apiVars, menuVars, providerVars, adkVars, issued, pending,
                    numInputs, lastRaw, handedLast, checksPassed >>

LC_Next ==
    \/ LC_main_checks
    \/ \E raw \in MenuInputs : LC_main_choice(raw)
    \/ \E failAt \in CreateCalls : LC_create_xero_mcp_agent(failAt)
    \/ LC_demo_invoke
    \/ \E raw \in RawInputs : LC_interactive_input(raw)
    \/ LC_interactive_interrupt
    \/ \E outcome \in RunOutcomes : LC_run_done(outcome)

(***************************************************************************)
(* cloud-run-invoicing-agent/xero_invoicing_agent/agent.py                 *)
(***************************************************************************)
\* my_env_vars
my_env_vars == [v \in {"XERO_CLIENT_ID", "XERO_CLIENT_SECRET"} |-> env[v]]

\* the module body: my_env_vars, xero_mcp_toolset and root_agent are built on import,
\* with no check of the environment
CR_module_body ==
    /\ script = "cloudrun" /\ pc = "start"
    /\ handlesCreated' = handlesCreated + 1
    /\ handle' = "open"
    /\ spawnEnv' = my_env_vars
    /\ exposed' = exposed_tools(tool_filter("cloudrun"), offered)
    /\ Say({"root_agent"})
    /\ Finish("normal")
    /\ UNCHANGED << cfgVars, offered, apiVars, menuVars, runVars, loopVars, adkVars, sessionsCreated,
                    launches, pending, step, errCount, checksPassed >>

Next ==
    \/ ADK_Next
    \/ OAI_Next
    \/ LC_Next
    \/ CR_module_body

Spec == Init /\ [][Next]_vars

(***************************************************************************)
(* The same programs against every server of ServerOffers, started with a  *)
(* complete environment.                                                   *)
(***************************************************************************)
InitTools ==
    /\ script \in Scripts
    /\ env = [v \in EnvVars |-> IF v \in ReadVars(script) THEN SetValue(v) ELSE None]
    /\ npx = TRUE
    /\ offered \in ServerOffers
    /\ pc = "start"
    /\ ended = "running"
    /\ pending = "none"
    /\ choice = <<"-">>
    /\ rawChoice = <<"-">>
    /\ demo = NoDemo
    /\ step = 1
    /\ self = XeroADKAgent_init
    /\ handle = "none"
    /\ spawnEnv = NoEnv
    /\ handlesCreated = 0
    /\ sessionsCreated = 0
    /\ launches = 0
    /\ inflight = 0
    /\ issued = 0
    /\ raised = 0
    /\ errCount = 0
    /\ printed = {}
    /\ menuReads = 0
    /\ demosRun = <<>>
    /\ checksPassed = FALSE
    /\ numInputs = 0
    /\ lastRaw = <<"-">>
    /\ handedLast = 0
    /\ lastOutcome = "none"
    /\ loopExit = "none"
    /\ atInterrupt = <<0, 0>>
    /\ cleanups = 0
    /\ cleanupUsed = "none"
    /\ exposed = {}
    /\ calls = 0
    /\ processResult = "none"
    /\ partFailed = FALSE
    /\ cleanupResult = "none"
    /\ cleanupLog = <<>>

SpecTools == InitTools /\ [][Next]_vars

(***************************************************************************)
(* XeroADKAgent used as a class: a caller constructs it and awaits its      *)
(* methods initialize, process and cleanup in any order, one at a time,     *)
(* catching what they raise.  pc = "prompt" is the caller between calls.    *)
(***************************************************************************)
InitAPI ==
    /\ script = "adk"
    /\ env = [v \in EnvVars |-> IF v \in ReadVars("adk") THEN SetValue(v) ELSE None]
    /\ npx = TRUE
    /\ offered = AllOperations
    /\ pc = "prompt"
    /\ ended = "running"
    /\ pending = "none"
    /\ choice = <<"-">>
    /\ rawChoice = <<"-">>
    /\ demo = APICaller
    /\ step = 1
    /\ self = XeroADKAgent_init
    /\ handle = "none"
    /\ spawnEnv = NoEnv
    /\ handlesCreated = 0
    /\ sessionsCreated = 0
    /\ launches = 0
    /\ inflight = 0
    /\ issued = 0
    /\ raised = 0
    /\ errCount = 0
    /\ printed = {}
    /\ menuReads = 0
    /\ demosRun = <<>>
    /\ checksPassed = FALSE
    /\ numInputs = 0
    /\ lastRaw = <<"-">>
    /\ handedLast = 0
    /\ lastOutcome = "none"
    /\ loopExit = "none"
    /\ atInterrupt = <<0, 0>>
    /\ cleanups = 0
    /\ cleanupUsed = "none"
    /\ exposed = {}
    /\ calls = 0
    /\ processResult = "none"
    /\ partFailed = FALSE
    /\ cleanupResult = "none"
    /\ cleanupLog = <<>>

\* `await agent.initialize()`: prints and re-raises what one of its calls raised
API_initialize(failAt) ==
    /\ demo = APICaller /\ pc = "prompt"
    /\ calls < MaxCalls
    /\ calls' = calls + 1
    /\ initialize(failAt)
    /\ IF failAt = "none"
         THEN Say({"init_ok"}) /\ UNCHANGED errCount
         ELSE Say({"init_failed"}) /\ errCount' = errCount + 1
    /\ UNCHANGED << cfgVars, offered, menuVars, runVars, loopVars, cleanups, cleanupUsed,
                    processResult, partFailed, cleanupResult, cleanupLog,
                    launches, pc, ended, pending, step, checksPassed >>

\* `await agent.process(query)` up to the await of the run
API_process(failAt) ==
    /\ demo = APICaller /\ pc = "prompt"
    /\ calls < MaxCalls
    /\ calls' = calls + 1
    /\ ADK_process_start(failAt)
    /\ UNCHANGED << cfgVars, offered, partFailed, cleanupResult, cleanupLog,
                    menuVars, loopVars, cleanups, cleanupUsed,
                    ended, pending, checksPassed, lastOutcome >>

\* the awaited run returns or raises: the rest of XeroADKAgent.process; what process
\* does not catch is caught by the caller.  partError: handling one of the run's
\* events raised, which the `except Exception as part_error` inside the event loop
\* reports and skips.
API_run_done(outcome, partError) ==
    /\ demo = APICaller /\ pc = "run"
    /\ inflight' = inflight - 1
    /\ lastOutcome' = outcome
    /\ partFailed' = partError
    /\ processResult' = process_result(outcome)
    /\ IF outcome \in {"text", "empty"}
         THEN /\ Say(part_warning(partError))
              /\ UNCHANGED << raised, errCount >>
       ELSE IF IsInstance(ExcOf(outcome), ADK_process_except)
         THEN /\ Say(part_warning(partError) \cup {"process_error"})
              /\ errCount' = errCount + 1
              /\ raised' = IF outcome = "raise" THEN raised + 1 ELSE raised
         ELSE /\ Say(part_warning(partError))
              /\ UNCHANGED << raised, errCount >>
    /\ pc' = "prompt"
    /\ UNCHANGED << cfgVars, offered, calls, cleanupResult, cleanupLog, menuVars,
                    providerVars, adkVars, loopVars, issued, step,
                    ended, pending, checksPassed >>

\* `await agent.cleanup()` on a toolset with attributes has whose methods fails raise
API_cleanup(has, fails) ==
    /\ demo = APICaller /\ pc = "prompt"
    /\ calls < MaxCalls
    /\ calls' = calls + 1
    /\ cleanups' = cleanups + 1
    /\ LET c == cleanup(self.xero_toolset, has, fails)
       IN  /\ cleanupUsed' = c.used
           /\ cleanupLog' = c.log
           /\ cleanupResult' = c.outcome
           /\ handle' = IF c.used # "none" THEN "closed" ELSE handle
           /\ Say((IF c.used # "none" THEN {"cleanup_used"} ELSE {})
                  \cup (IF c.outcome = "completed" THEN {"cleanup_completed"} ELSE {})
                  \cup (IF c.outcome = "warning" THEN {"cleanup_warning"} ELSE {}))
    /\ UNCHANGED << cfgVars, offered, menuVars, runVars, loopVars, self, spawnEnv,
                    handlesCreated, sessionsCreated, launches, exposed,
                    processResult, partFailed, pc, ended, pending, step, errCount,
                    checksPassed >>

NextAPI ==
    \/ \E failAt \in InitCalls : API_initialize(failAt)
    \/ \E failAt \in InitCalls : API_process(failAt)
    \/ \E outcome \in RunOutcomes, partError \in BOOLEAN : API_run_done(outcome, partError)
    \/ \E has \in SUBSET ToolsetAttrs : \E fails \in SUBSET cleanup_methods_set(has) :
           API_cleanup(has, fails)

SpecAPI == InitAPI /\ [][NextAPI]_vars

(***************************************************************************)
(* The steps of a chosen demo that need no input from the terminal.  Each  *)
(* script runs one coroutine under asyncio.run: the event loop resumes it  *)
(* whenever it can continue, and an awaited run is taken to return or      *)
(* raise eventually.                                                       *)
(***************************************************************************)
DemoStep ==
    \/ \E failAt \in InitCalls : ADK_aenter(failAt)
    \/ \E failAt \in InitCalls : ADK_demo_process(failAt)
    \/ \E outcome \in RunOutcomes : ADK_run_done(outcome)
    \/ \E has \in SUBSET ToolsetAttrs : \E fails \in SUBSET cleanup_methods_set(has) :
           ADK_aexit(has, fails)
    \/ \E ok \in BOOLEAN : OAI_create_agent(ok)
    \/ OAI_demo_run
    \/ \E outcome \in RunOutcomes : OAI_run_done(outcome)
    \/ OAI_server_exit
    \/ \E failAt \in CreateCalls : LC_create_xero_mcp_agent(failAt)
    \/ LC_demo_invoke
    \/ \E outcome \in RunOutcomes : LC_run_done(outcome)

FairSpec == Spec /\ WF_vars(DemoStep)

(***************************************************************************)
(* Properties.                                                             *)
(***************************************************************************)
MenuScripts == {"adk", "openai", "langchain"}
Credentials == {"XERO_CLIENT_ID", "XERO_CLIENT_SECRET"}

\* a non-interactive demo that issued at least one run and returned without interrupt
DemoReturned ==
    /\ ended = "normal"
    /\ ~demo.interactive
    /\ issued >= 1
    /\ lastOutcome # "interrupt"

\* in an interactive loop, a run that raised is followed by the next prompt
PromptAfterRaise ==
    (demo.interactive /\ lastOutcome = "raise" /\ handedLast = 1 /\ pc # "run"
        /\ loopExit = "none") => pc = "prompt"

\* C1 (as stated): when an agent run raises, the message is printed and the demo goes
\* on with its next step (the loop with its next prompt): a demo that returned has
\* issued every run of its list, however many of them raised.
C1_NoStepSkipped ==
    /\ DemoReturned => (issued = demo.prompts /\ errCount >= raised)
    /\ PromptAfterRaise

\* the demos whose try block is inside the loop over the prompts
C1_TryPerPrompt ==
    \/ script = "adk"
    \/ script = "openai" /\ demo.name \in {"demo_basic_agent", "demo_invoice_specialist",
                                           "demo_contact_manager"}

\* C1 (amended): a raising run always has its message printed.  In the ADK demos and
\* the OpenAI demos 1-3 the demo then goes on and issues every run of its list; in
\* the LangChain demos and the OpenAI workflow demos 4-5, whose single try block
\* encloses all runs, the first raising run is the last run and the remaining steps
\* are skipped; an interactive loop prompts again.
C1_StepsAfterFailure ==
    /\ DemoReturned =>
         /\ errCount >= raised
         /\ IF C1_TryPerPrompt
              THEN issued = demo.prompts
              ELSE \/ raised = 0 /\ issued = demo.prompts
                   \/ raised = 1 /\ lastOutcome = "raise" /\ issued <= demo.prompts
    /\ PromptAfterRaise

\* C1 witness: the OpenAI basic demo returned after all three runs, one of which raised
C1_Witness ==
    /\ script = "openai" /\ demo.name = "demo_basic_agent"
    /\ ended = "normal" /\ raised >= 1 /\ issued = 3 /\ errCount >= 1

\* C2: no exception raised by an SDK call ends the process uncaught.
C2_NoSdkExceptionEscapes == ended # "SdkException"

\* the variables the claim names as required, per program
C3_RequiredMissing ==
    \/ \E v \in Credentials : Falsy(env[v])
    \/ script \in {"openai", "langchain"} /\ Falsy(env["OPENAI_API_KEY"])
    \/ script = "adk" /\ Falsy(env["DEFAULT_MODEL"]) /\ Falsy(env["GOOGLE_API_KEY"])
                      /\ Falsy(env["GOOGLE_GENAI_USE_VERTEXAI"])

InstructionTags == {"missing_env_vars", "no_model_config", "npx_missing",
                    "npx_missing_raised", "llm_key_missing", "xero_credentials_missing"}

\* C3: with a required variable unset or empty, the menu is never read, no
\* tool-provider handle is constructed, no subprocess is started, and the program
\* ends normally having printed an instruction.
C3_MissingEnvStopsEarly ==
    C3_RequiredMissing =>
        /\ menuReads = 0
        /\ handlesCreated = 0
        /\ launches = 0
        /\ ended # "running" => (ended = "normal" /\ printed \cap InstructionTags # {})

\* C4: without npx the program stops at startup: the menu is never read, no start of
\* the tool-provider subprocess is attempted, and a menu-driven program that ended
\* has shown an instruction.
C4_MissingNpxStopsEarly ==
    ~npx =>
        /\ launches = 0
        /\ menuReads = 0
        /\ (script \in MenuScripts /\ ended # "running") => printed \cap InstructionTags # {}

\* C5: at most one agent run is in flight, and while one is in flight the coroutine
\* is suspended on it.
C5_OneRunInFlight ==
    /\ inflight \in {0, 1}
    /\ inflight = 1 => pc = "run"

\* C5 witness: a second run is in flight after the first has returned or raised
C5_Witness == inflight = 1 /\ issued >= 2 /\ lastOutcome # "none"

\* the lines of RawInputs by what the claim says of them
C6_QuitLines == { <<"q","u","i","t">>, <<" ","E","x","i","t"," ">>, <<"Q">> }
C6_EmptyLines == { <<>>, <<" ","\t">> }
C6_AgentLines == { <<"h","i">>, <<" ","q","u","i","t","s">> }

\* C6: in an interactive loop, a quit word (stripped, lower-cased) ends the loop and
\* nothing else but an interrupt does; every other non-empty line is handed to the
\* agent exactly once and an empty line never; after each run, returned or raised,
\* the loop prompts again.
C6_InteractiveLoop ==
    (demo.interactive /\ numInputs > 0) =>
        /\ handedLast = (IF lastRaw \in C6_AgentLines THEN 1 ELSE 0)
        /\ loopExit = "quit" <=> lastRaw \in C6_QuitLines
        /\ loopExit \in {"none", "quit", "interrupt"}
        /\ loopExit = "none" => pc \in {"prompt", "run"}
        /\ (loopExit = "none" /\ inflight = 0) => pc = "prompt"
        /\ pc = "run" => lastRaw \in C6_AgentLines
        /\ issued <= numInputs

\* C6 witness: a run raised, the loop went on reading, and a later quit word ended it
C6_Witness ==
    /\ demo.interactive /\ numInputs >= 3 /\ raised >= 1
    /\ loopExit = "quit" /\ lastRaw = <<" ","E","x","i","t"," ">>

\* C7: a KeyboardInterrupt at the prompt or during the awaited run of an interactive
\* loop ends the loop: no line is read and no run issued afterwards, and the program
\* ends normally, in the ADK program after cleanup has run once.
C7_InterruptEndsLoop ==
    /\ (demo.interactive /\ lastOutcome = "interrupt") => loopExit = "interrupt"
    /\ loopExit = "interrupt" =>
         /\ numInputs = atInterrupt[1]
         /\ issued = atInterrupt[2]
         /\ inflight = 0
         /\ pc \in {"exit", "done"}
         /\ ended \in {"running", "normal"}
         /\ (script = "adk" /\ ended = "normal") => cleanups = 1

\* C7 witness: the ADK loop was interrupted during an awaited run and the program ended
C7_Witness ==
    /\ script = "adk" /\ loopExit = "interrupt" /\ lastOutcome = "interrupt"
    /\ ended = "normal" /\ cleanups = 1

\* the menu line without its blanks, and the menu of each program
C8_Digits(raw) == SelectSeq(raw, LAMBDA c : c \notin {" ", "\t"})
C8_Menu == CASE script = "adk" -> ADK_demos
             [] script = "openai" -> OAI_demos
             [] script = "langchain" -> LC_demos
             [] OTHER -> ADK_demos
C8_ValidChoices == { <<"1">>, <<"2">>, <<"3">>, <<"4">>, <<"5">>, <<"6">> }

\* what the claim says of the one menu line read
C8_Dispatch ==
    /\ menuReads <= 1
    /\ Len(demosRun) <= 1
    /\ menuReads = 0 => demosRun = <<>>
    /\ menuReads = 1 =>
         IF C8_Digits(rawChoice) \in C8_ValidChoices
           THEN demosRun = << C8_Menu[C8_Digits(rawChoice)].name >>
           ELSE /\ demosRun = <<>>
                /\ issued = 0
                /\ "invalid_choice" \in printed
                /\ pc \in {"exit", "done"}
                /\ ended \in {"running", "normal"}

C9_OneHandleClosedAtEnd ==
    script \in MenuScripts =>
        /\ handlesCreated <= 1
        /\ sessionsCreated <= 1
        /\ handle = "closed" => pc \in {"done"}
        /\ (ended = "normal" /\ handlesCreated = 1) => handle = "closed"

\* C10: the env mapping given to the tool-provider handle holds both credentials,
\* each equal to the program's own value and each a non-empty string.
C10_SpawnEnvHasCredentials ==
    handlesCreated > 0 =>
        \A v \in Credentials :
            /\ v \in DOMAIN spawnEnv
            /\ spawnEnv[v] = env[v]
            /\ spawnEnv[v] # None
            /\ spawnEnv[v] # ""

\* the fixed lists the claim speaks of, as written in the two ADK sources
C11_AdkAllowList ==
    { "list-contacts", "create-contact", "list-invoices", "create-invoice",
      "get-timesheet", "list-accounts", "list-items", "list-tax-rates",
      "list-tracking-categories", "update-contact", "update-invoice",
      "create-payment", "list-payments", "list-organisation-details" }
C11_CloudRunAllowList ==
    { "list-contacts", "list-items", "list-tax-rates", "list-accounts",
      "list-tracking-categories", "create-invoice", "list-invoices", "update-invoice" }

\* the agent of the program holds its tools
C11_AgentHasTools == pc \in {"loop", "run", "prompt", "exit"}

\* C11 (as stated): in every program the operations exposed to the agent are among a
\* fixed allow-list, whatever the server offers.
C11_ExposedWithinAllowList ==
    exposed \subseteq (IF script = "cloudrun" THEN C11_CloudRunAllowList
                                              ELSE C11_AdkAllowList)

\* C11 (amended): the ADK program and the cloud-run module construct the handle with
\* a fixed allow-list and expose only listed operations the server offers; the OpenAI
\* and LangChain programs construct it without one and expose whatever the server
\* offers.
C11_ExposedPerProgram ==
    /\ exposed \subseteq offered
    /\ script = "adk" => exposed \subseteq C11_AdkAllowList
    /\ script = "cloudrun" => exposed \subseteq C11_CloudRunAllowList
    /\ (script = "adk" /\ C11_AgentHasTools) => exposed = offered \cap C11_AdkAllowList
    /\ (script = "cloudrun" /\ handle = "open")
         => exposed = offered \cap C11_CloudRunAllowList
    /\ (script \in {"openai", "langchain"} /\ C11_AgentHasTools) => exposed = offered

\* C11 witness: the ADK agent is running with the listed operations of a server that
\* also offers an unlisted one
C11_Witness ==
    /\ script = "adk" /\ pc = "run"
    /\ offered = { "list-invoices", "get-timesheet", "list-quotes" }
    /\ exposed = { "list-invoices", "get-timesheet" }

\* the demo prompts whose turn has come so far
C12_PromptsStarted == IF pc = "loop" THEN step - 1 ELSE step

\* C12: nothing is retried locally: a demo has issued at most one agent run for each
\* prompt whose turn has come, at most as many as it has prompts, and an interactive
\* loop at most one run for each line read; a run that raised is followed by the next
\* prompt or by the end of the demo, never by the same prompt again.
C12_NoLocalRetry ==
    /\ (demo # NoDemo /\ ~demo.interactive)
         => /\ issued <= C12_PromptsStarted
            /\ issued <= demo.prompts
            /\ step <= demo.prompts + 1
    /\ demo.interactive
         => /\ issued <= numInputs
            /\ handedLast <= 1
    /\ raised <= issued \/ script = "adk"
    /\ inflight <= 1

\* C12 witness: the first run of a demo raised and the demo is waiting for the run of
\* its second prompt
C12_Witness ==
    /\ demo # NoDemo /\ ~demo.interactive
    /\ raised = 1 /\ step = 2 /\ issued = 2 /\ pc = "run"

\* a demo with a fixed prompt list has been chosen
C13_FixedListDemo == demo # NoDemo /\ ~demo.interactive

\* C13: a non-interactive demo never issues more runs than its fixed list has prompts,
\* and, every awaited run returning or raising eventually, the script that chose it
\* comes to its end.
C13_DemoTerminates ==
    /\ [](C13_FixedListDemo => issued <= demo.prompts)
    /\ (C13_FixedListDemo ~> (ended # "running"))

\* C13 witness: the four-prompt demo has ended after four runs, one of which raised
C13_Witness ==
    /\ C13_FixedListDemo /\ demo.prompts = 4
    /\ ended = "normal" /\ issued = 4 /\ raised >= 1

\* a step in which a process call ends after its run returned or raised
C14_RunEnds == demo = APICaller /\ pc = "run" /\ pc' = "prompt"

\* a step in which a process call ends before any run: lazy initialization raised, or
\* the session is missing
C14_EndsBeforeRun == demo = APICaller /\ pc = "prompt" /\ pc' = "prompt" /\ raised' = raised + 1

\* C14 (as stated): process never lets an Exception through; it returns the error
\* message whenever lazy initialization, the runner or the handling of an event
\* failed, and the agent's text or the default sentence otherwise.
C14_ErrorMessageOnAnyFailure ==
    [][ /\ C14_EndsBeforeRun => processResult' = "error_msg"
        /\ C14_RunEnds
             => /\ processResult' # "Exception"
                /\ (lastOutcome' = "raise" \/ partFailed') => processResult' = "error_msg"
                /\ (lastOutcome' = "text" /\ ~partFailed') => processResult' = "text"
                /\ (lastOutcome' = "empty" /\ ~partFailed') => processResult' = "default"
      ]_vars

\* C14 (amended): process never lets an Exception through; it returns the error
\* message when lazy initialization or the runner raised (or the session is missing),
\* and else the agent's text, or the default sentence when no text part was collected.
\* An event whose handling raised is reported as a warning and skipped: it does not
\* turn the result into the error message.
C14_ProcessReturnsString ==
    [][ /\ C14_EndsBeforeRun => processResult' = "error_msg"
        /\ C14_RunEnds
             => /\ processResult' # "Exception"
                /\ lastOutcome' = "raise" => processResult' = "error_msg"
                /\ lastOutcome' = "text" => processResult' = "text"
                /\ lastOutcome' = "empty" => processResult' = "default"
                /\ partFailed' => "part_warning" \in printed'
                /\ lastOutcome' # "interrupt"
                     => processResult' \in {"text", "default", "error_msg"}
      ]_vars

\* C14 witness: a first process call returned the error message because lazy
\* initialization raised, and a later one returned text although handling an event
\* of its run raised
C14_Witness ==
    /\ demo = APICaller /\ pc = "prompt"
    /\ "init_failed" \in printed /\ "process_error" \in printed
    /\ partFailed /\ lastOutcome = "text" /\ processResult = "text"

\* the body of `async with XeroADKAgent() as agent` was entered
C15_Entered == script = "adk" /\ demo # APICaller /\ "init_ok" \in printed

\* C15: once the body of the `async with` is entered, cleanup has not run while the
\* body runs and has run exactly once, to completion, when the script has ended,
\* however the body was left; a KeyboardInterrupt that left the body of a demo
\* reaches main, which reports it.  cleanup does not run when the body was not entered.
C15_CleanupOncePerExit ==
    /\ (script = "adk" /\ demo # APICaller /\ ~C15_Entered) => cleanups = 0
    /\ C15_Entered
         => /\ pc \in {"loop", "run", "prompt", "exit"} => cleanups = 0
            /\ pc = "done" => (cleanups = 1 /\ cleanupResult = "completed")
            /\ pc \in {"loop", "run", "prompt", "exit", "done"}
            /\ (pc = "done" /\ lastOutcome = "interrupt" /\ ~demo.interactive)
                 => "demo_interrupted" \in printed
            /\ (pc = "done" /\ "demo_interrupted" \in printed)
                 => (lastOutcome = "interrupt" /\ ~demo.interactive)

\* C15 witness: a demo was left by a KeyboardInterrupt after one of its runs had
\* raised; cleanup ran once and main reported the interrupt
C15_Witness ==
    /\ C15_Entered /\ pc = "done" /\ cleanups = 1
    /\ raised >= 1 /\ lastOutcome = "interrupt" /\ "demo_interrupted" \in printed

\* C16: cleanup never raises to its caller: every call ends completed, or at most
\* with a warning, whichever methods the toolset has, whichever of them raise, and
\* also when no toolset was stored.
C16_CleanupNeverRaises ==
    /\ cleanupResult \in {"none", "completed", "warning"}
    /\ cleanups > 0 => cleanupResult \in {"completed", "warning"}
    /\ (cleanups > 0 /\ cleanupResult = "completed") => "cleanup_completed" \in printed

\* C16 witness: a cleanup call on a toolset all five of whose methods raised ended
\* completed, with no method used
C16_Witness ==
    /\ demo = APICaller /\ cleanups > 0 /\ cleanupResult = "completed"
    /\ Len(cleanupLog) = 5 /\ \A i \in 1..5 : cleanupLog[i][2] = "raised"
    /\ cleanupUsed = "none"

\* the order the claim gives for the cleanup methods
C17_Order == << "close", "disconnect", "cleanup", "_client.close", "_connection.close" >>

\* C17: a cleanup call comes to the methods in the fixed order; each one it comes to is
\* skipped (the toolset lacks it), raised (and the next one follows) or completed; a
\* completed method is the last one the call comes to, so at most one completes, and
\* the call goes through all five when none completes.
C17_FirstCompletedStops ==
    /\ Len(cleanupLog) <= Len(C17_Order)
    /\ \A i \in 1..Len(cleanupLog) :
          /\ cleanupLog[i][1] = C17_Order[i]
          /\ cleanupLog[i][2] \in {"skipped", "raised", "completed"}
          /\ cleanupLog[i][2] = "completed" => i = Len(cleanupLog)
    /\ Cardinality({i \in 1..Len(cleanupLog) : cleanupLog[i][2] = "completed"}) <= 1
    /\ (cleanupLog # <<>> /\ cleanupLog[Len(cleanupLog)][2] # "completed")
         => Len(cleanupLog) = Len(C17_Order)
    /\ demo = APICaller
         => cleanupUsed = (IF cleanupLog # <<>> /\ cleanupLog[Len(cleanupLog)][2] = "completed"
                             THEN cleanupLog[Len(cleanupLog)][1] ELSE "none")

\* C17 witness: the toolset lacks close, its disconnect raised and its cleanup
\* completed; the two methods after it were not tried
C17_Witness ==
    cleanupLog = << <<"close", "skipped">>, <<"disconnect", "raised">>,
                    <<"cleanup", "completed">> >>

\* C18: whatever initialize and process calls were made on a XeroADKAgent, whenever
\* agent and runner are set the session is set too (so the test `not self.agent or
\* not self.runner` of process never passes over a missing session).
C18_SessionSetWithAgentAndRunner ==
    (self.agent /\ self.runner) => self.session

\* C19: when the ADK script has ended, a toolset that initialize created has been
\* passed through cleanup, also when initialize failed after creating it.
C19_ToolsetCleanedBeforeEnd ==
    (script = "adk" /\ demo # APICaller /\ ended # "running" /\ self.xero_toolset)
        => cleanups >= 1

\* one of the two workflow demos of openai_agents.py is running or has run
C20_Workflow ==
    /\ script = "openai"
    /\ demo.name \in {"demo_multi_agent_workflow", "demo_comprehensive_workflow"}

\* C20: in the two workflow demos the steps are started in order, each only after the
\* one before it returned without exception; once a step raised, one error message
\* has been printed, no further step is started and the demo returns normally.
C20_WorkflowStopsAtFirstFailure ==
    C20_Workflow
      => /\ step \in 1..4 /\ issued <= 3
         /\ pc = "loop" => (issued = step - 1 /\ raised = 0
                              /\ (step > 1 => lastOutcome \in {"text", "empty"}))
         /\ pc = "run" => (issued = step /\ raised = 0
                              /\ (step > 1 => lastOutcome \in {"text", "empty"}))
         /\ raised <= 1 /\ errCount = raised
         /\ raised = 1
              => /\ pc \in {"exit", "done"}
                 /\ issued = step /\ inflight = 0 /\ pending = "none"
                 /\ lastOutcome = "raise"
                 /\ pc = "done" => ended = "normal"

\* C20 witness: the second step of the multi-agent workflow raised; the third was
\* never started and the script ended normally
C20_Witness ==
    /\ C20_Workflow /\ demo.name = "demo_multi_agent_workflow"
    /\ raised = 1 /\ issued = 2 /\ errCount = 1 /\ ended = "normal"

\* the variable is set to a non-empty value
C21_Set(v) == env[v] \notin {None, ""}

C21_CredentialsSet == C21_Set("XERO_CLIENT_ID") /\ C21_Set("XERO_CLIENT_SECRET")

\* the startup checks of the ADK script have been made
C21_Checked == script = "adk" /\ demo # APICaller /\ pc # "start"

\* the instruction main printed, by the first check that fails
C21_Message(model_ok) ==
    IF ~C21_CredentialsSet THEN {"missing_env_vars"}
    ELSE IF ~model_ok THEN {"no_model_config"}
    ELSE IF ~npx THEN {"npx_missing"}
    ELSE {}

\* C21 (as stated): the ADK script reaches its menu exactly when both credentials are
\* non-empty, DEFAULT_MODEL or GOOGLE_API_KEY is set and npx is found, the
\* GOOGLE_GENAI_USE_VERTEXAI flag alone not being enough; the first failing check in
\* the order credentials, model, npx decides the message.
C21_MenuIffModelOrKey ==
    C21_Checked
      => LET model_ok == C21_Set("DEFAULT_MODEL") \/ C21_Set("GOOGLE_API_KEY")
         IN  /\ checksPassed <=> (C21_CredentialsSet /\ model_ok /\ npx)
             /\ ("menu" \in printed) <=> checksPassed
             /\ printed \cap InstructionTags = C21_Message(model_ok)

\* C21 (amended): the ADK script reaches its menu exactly when both credentials are
\* non-empty, at least one of DEFAULT_MODEL, GOOGLE_API_KEY and
\* GOOGLE_GENAI_USE_VERTEXAI is non-empty and npx is found; the first failing check in
\* the order credentials, model, npx alone decides the message, and the script then
\* ends without reading the menu.
C21_MenuIffAnyModelSetting ==
    C21_Checked
      => LET model_ok == \/ C21_Set("DEFAULT_MODEL") \/ C21_Set("GOOGLE_API_KEY")
                         \/ C21_Set("GOOGLE_GENAI_USE_VERTEXAI")
         IN  /\ checksPassed <=> (C21_CredentialsSet /\ model_ok /\ npx)
             /\ ("menu" \in printed) <=> checksPassed
             /\ printed \cap InstructionTags = C21_Message(model_ok)
             /\ ~checksPassed => (ended = "normal" /\ menuReads = 0)

\* C21 witness: with the credentials, npx and only the GOOGLE_GENAI_USE_VERTEXAI flag
\* set, the menu was shown and a choice read
C21_Witness ==
    /\ C21_Checked /\ C21_CredentialsSet /\ npx
    /\ ~C21_Set("DEFAULT_MODEL") /\ ~C21_Set("GOOGLE_API_KEY")
    /\ C21_Set("GOOGLE_GENAI_USE_VERTEXAI")
    /\ checksPassed /\ "menu" \in printed /\ menuReads = 1

====
